---------------------------- MODULE Spec2Model ----------------------------
(***************************************************************************)
(* Model of the Dockerfile gate of the policy engine                       *)
(* (anchore_engine/services/policy_engine/engine/policy/gates/             *)
(* dockerfile.py): DockerfileGate.prepare_context, which folds the lines   *)
(* of a Dockerfile into a mapping from directive to logical lines, and the *)
(* evaluate method of each of the gate's ten triggers.                     *)
(*                                                                         *)
(* A string is a sequence of one-character strings, so that strip, split,  *)
(* upper, lower and the regular expressions of the source are computed     *)
(* character by character.  A Dockerfile text is the sequence of its lines *)
(* (what str.splitlines() returns); the empty sequence stands for both an  *)
(* absent text (None) and the empty text, which the source treats alike    *)
(* (both are falsy in "if image_obj.dockerfile_contents").                 *)
(***************************************************************************)
EXTENDS Naturals, Sequences, FiniteSets

VARIABLES
    dockerfile_mode,      \* image_obj.dockerfile_mode
    dockerfile_contents,  \* image_obj.dockerfile_contents, as its lines
    pc,                   \* "start", "scan", "prepared", "evaluated", "raised"
    prepared_set,         \* TRUE iff context.data has the key 'prepared_dockerfile'
    prepared_dockerfile,  \* context.data['prepared_dockerfile']: directive -> lines
    linebuf,              \* prepare_context's in-progress buffer
    lineno,               \* number of lines prepare_context's loop has consumed
    trigger,              \* __trigger_name__ of the trigger that was evaluated
    eval_params,          \* that trigger's parameters, parsed
    fired                 \* that trigger's findings, in the order they were fired

vars == <<dockerfile_mode, dockerfile_contents, pc, prepared_set,
          prepared_dockerfile, linebuf, lineno, trigger, eval_params, fired>>

image_vars == <<dockerfile_mode, dockerfile_contents>>
context_vars == <<prepared_set, prepared_dockerfile, linebuf, lineno>>

(***************************************************************************)
(* Bounds of the model.                                                    *)
(***************************************************************************)
\* Largest number of lines of a Dockerfile text.
MaxLines == 2

(***************************************************************************)
(* Characters and strings.                                                 *)
(***************************************************************************)
Lowers == <<"a","b","c","d","e","f","g","h","i","j","k","l","m",
            "n","o","p","q","r","s","t","u","v","w","x","y","z">>
Uppers == <<"A","B","C","D","E","F","G","H","I","J","K","L","M",
            "N","O","P","Q","R","S","T","U","V","W","X","Y","Z">>

\* str.upper() and str.lower() on one character
UpperChar(c) ==
    IF \E i \in DOMAIN Lowers : Lowers[i] = c
    THEN Uppers[CHOOSE i \in DOMAIN Lowers : Lowers[i] = c]
    ELSE c
LowerChar(c) ==
    IF \E i \in DOMAIN Uppers : Uppers[i] = c
    THEN Lowers[CHOOSE i \in DOMAIN Uppers : Uppers[i] = c]
    ELSE c
Upper(s) == [i \in 1..Len(s) |-> UpperChar(s[i])]
Lower(s) == [i \in 1..Len(s) |-> LowerChar(s[i])]

\* the whitespace of str.strip(), str.split() and the regex class \s that can
\* occur inside one line of the texts modelled here: blank and tab
IsSpace(c) == c \in {" ", "\t"}

SetMin(S) == CHOOSE x \in S : \A y \in S : x <= y
SetMax(S) == CHOOSE x \in S : \A y \in S : y <= x

\* str.strip()
Strip(s) ==
    LET keep == {i \in 1..Len(s) : ~IsSpace(s[i])}
    IN  IF keep = {} THEN <<>> ELSE SubSeq(s, SetMin(keep), SetMax(keep))

\* s[n:]
From(s, n) == SubSeq(s, n + 1, Len(s))

\* s.startswith(p); for a pattern p without metacharacters also bool(re.match(p, s))
StartsWith(s, p) == Len(p) <= Len(s) /\ SubSeq(s, 1, Len(p)) = p

\* number of leading whitespace characters of s (what a greedy \s* or \s+ takes)
LeadingSpaces(s) ==
    LET stop == {i \in 1..Len(s) : ~IsSpace(s[i])}
    IN  IF stop = {} THEN Len(s) ELSE SetMin(stop) - 1

\* str.split(): the maximal runs of non-whitespace characters, in order
RECURSIVE SplitWs(_)
SplitWs(s) ==
    LET t == From(s, LeadingSpaces(s))
        ws == {i \in 1..Len(t) : IsSpace(t[i])}
        n == IF ws = {} THEN Len(t) ELSE SetMin(ws) - 1
    IN  IF t = <<>> THEN <<>>
        ELSE <<SubSeq(t, 1, n)>> \o SplitWs(From(t, n))

\* list.remove(x), which raises ValueError when x is not in the list:
\* [ok |-> FALSE] then, and the list without its first x otherwise
ListRemove(l, x) ==
    LET at == {i \in 1..Len(l) : l[i] = x}
    IN  IF at = {} THEN [ok |-> FALSE, list |-> l]
        ELSE [ok |-> TRUE,
              list |-> SubSeq(l, 1, SetMin(at) - 1) \o From(l, SetMin(at))]

\* x in l, for a list l
InList(x, l) == \E i \in 1..Len(l) : l[i] = x

(***************************************************************************)
(* DockerfileGate.prepare_context                                          *)
(***************************************************************************)
\* re.match(".*\\\$", line): the line ends with a backslash
EndsWithBackslash(line) == Len(line) > 0 /\ line[Len(line)] = "\\"

\* re.sub("\\\$", "", line) on such a line: the last backslash is removed
DropBackslash(line) == SubSeq(line, 1, Len(line) - 1)

\* line and not line.startswith('#')
IsInstruction(line) == line # <<>> /\ line[1] # "#"

\* linebuf.split(' ', 1): the split is at the first blank (the character ' '
\* alone); without a blank the list has one element
SplitBlank(buf) ==
    LET at == {i \in 1..Len(buf) : buf[i] = " "}
    IN  IF at = {} THEN <<buf>>
        ELSE <<SubSeq(buf, 1, SetMin(at) - 1), From(buf, SetMin(at))>>

\* the dictionary d after "if directive not in d: d[directive] = []" and
\* "d[directive].append(line)"
DictAppend(d, directive, line) ==
    [k \in DOMAIN d \cup {directive} |->
        IF k = directive
        THEN (IF k \in DOMAIN d THEN d[k] ELSE <<>>) \o <<line>>
        ELSE d[k]]

EmptyDict == [k \in {} |-> <<>>]

\* d.get(key, []) and d.get(key): no entry and an empty list are both falsy
DictGet(d, key) == IF key \in DOMAIN d THEN d[key] ELSE <<>>

\* prepare_context without its test of the mode: the dictionary is built for
\* every mode
PrepareBegin_AnyMode ==
    /\ pc = "start"
    /\ prepared_set' = TRUE
    /\ prepared_dockerfile' = EmptyDict
    /\ linebuf' = <<>>
    /\ lineno' = 0
    /\ pc' = IF dockerfile_contents # <<>> THEN "scan" ELSE "prepared"
    /\ UNCHANGED <<image_vars, trigger, eval_params, fired>>

\* the start of prepare_context: an Unknown mode returns before the context is
\* touched; any other mode stores an empty dictionary, and the loop is entered
\* when the text is non-empty
PrepareBegin ==
    /\ pc = "start"
    /\ IF dockerfile_mode = "Unknown"
       THEN /\ pc' = "prepared"
            /\ UNCHANGED context_vars
       ELSE /\ prepared_set' = TRUE
            /\ prepared_dockerfile' = EmptyDict
            /\ linebuf' = <<>>
            /\ lineno' = 0
            /\ pc' = IF dockerfile_contents # <<>> THEN "scan" ELSE "prepared"
    /\ UNCHANGED <<image_vars, trigger, eval_params, fired>>

\* one iteration of "for line in image_obj.dockerfile_contents.splitlines()"
PrepareLine ==
    /\ pc = "scan"
    /\ lineno < Len(dockerfile_contents)
    /\ lineno' = lineno + 1
    /\ LET line == Strip(dockerfile_contents[lineno + 1])
           buf == linebuf \o line
       IN  IF ~IsInstruction(line)
           THEN \* blank or comment: continue
                /\ UNCHANGED <<pc, linebuf, prepared_dockerfile>>
           ELSE IF EndsWithBackslash(line)
           THEN /\ linebuf' = linebuf \o DropBackslash(line)
                /\ UNCHANGED <<pc, prepared_dockerfile>>
           ELSE IF buf = <<>>
           THEN /\ linebuf' = buf
                /\ UNCHANGED <<pc, prepared_dockerfile>>
           ELSE IF Len(SplitBlank(buf)) # 2
           THEN \* "directive,remainder = ..." raises ValueError
                /\ pc' = "raised"
                /\ linebuf' = buf
                /\ UNCHANGED prepared_dockerfile
           ELSE /\ prepared_dockerfile' =
                      DictAppend(prepared_dockerfile, Upper(SplitBlank(buf)[1]), buf)
                /\ linebuf' = <<>>
                /\ UNCHANGED pc
    /\ UNCHANGED <<image_vars, prepared_set, trigger, eval_params, fired>>

\* the loop is exhausted: "return context"
PrepareReturn ==
    /\ pc = "scan"
    /\ lineno = Len(dockerfile_contents)
    /\ pc' = "prepared"
    /\ UNCHANGED <<image_vars, context_vars, trigger, eval_params, fired>>


(***************************************************************************)
(* What the triggers share.                                                *)
(***************************************************************************)
\* BaseTrigger._fire(msg=...): one more finding of the evaluated trigger.  A
\* finding is modelled as <<kind, argument>>: the message text it is built
\* from and the value formatted into it.
Fire(findings, kind, arg) == Append(findings, <<kind, arg>>)

\* context.data.get('prepared_dockerfile') is truthy: the key is there and the
\* dictionary has an entry
HasPrepared == prepared_set /\ DOMAIN prepared_dockerfile # {}

\* the result of an evaluate(): its findings, and whether it raised
Returned(findings) == [raised |-> FALSE, fired |-> findings]
Raised(findings) == [raised |-> TRUE, fired |-> findings]

\* the parameters of a trigger, parsed by delim_parser (an absent parameter
\* parses to the empty list); CHECK is one of ConditionValidator.__conditions__
NoParams ==
    [ALLOWED |-> <<>>, DENIED |-> <<>>, DIRECTIVES |-> <<>>, CHECK |-> "",
     CHECK_VALUE |-> <<>>, ALLOWEDPORTS |-> <<>>, DENIEDPORTS |-> <<>>]

\* re.match("^\s*(KW|kw)\s+(.*)", line): whether it matches, and group(2)
MatchKeyword(line, kw) ==
    LET t == From(line, LeadingSpaces(line))
        rest == From(t, Len(kw))
    IN  IF /\ (StartsWith(t, kw) \/ StartsWith(t, Lower(kw)))
           /\ LeadingSpaces(rest) >= 1
        THEN [ok |-> TRUE, str |-> From(rest, LeadingSpaces(rest))]
        ELSE [ok |-> FALSE, str |-> <<>>]

\* the orders in which a dictionary or a set can be iterated
Orders(S) ==
    {f \in [1..Cardinality(S) -> S] :
        \A i, j \in 1..Cardinality(S) : f[i] = f[j] => i = j}

D_USER == <<"U","S","E","R">>
D_EXPOSE == <<"E","X","P","O","S","E">>
D_FROM == <<"F","R","O","M">>
D_VOLUME == <<"V","O","L","U","M","E">>
D_HEALTHCHECK == <<"H","E","A","L","T","H","C","H","E","C","K">>
D_RUN == <<"R","U","N">>

(***************************************************************************)
(* EffectiveUserTrigger                                                    *)
(***************************************************************************)
\* re.search('\s*USER\s+\[?([^\]]+)\]?\s*', user): the leftmost USER that is
\* followed by whitespace and a group; \s+ takes as much as it can, \[? takes the
\* bracket when it can, and the group runs to the next "]" or to the end
SanitizeUser(user) ==
    LET rest(u) == From(user, u + 3)
        valid(u, w, b) ==
            /\ 1 <= w /\ w <= LeadingSpaces(rest(u))
            /\ (b = 1 => Len(rest(u)) > w /\ rest(u)[w + 1] = "[")
            /\ Len(rest(u)) >= w + b + 1
            /\ rest(u)[w + b + 1] # "]"
        starts == {u \in 1..Len(user) :
                     /\ u + 3 <= Len(user)
                     /\ SubSeq(user, u, u + 3) = D_USER
                     /\ \E w \in 1..Len(user), b \in {0, 1} : valid(u, w, b)}
        u0 == SetMin(starts)
        w0 == SetMax({w \in 1..Len(user) : \E b \in {0, 1} : valid(u0, w, b)})
        b0 == IF valid(u0, w0, 1) THEN 1 ELSE 0
        g == From(rest(u0), w0 + b0)
        close == {i \in 1..Len(g) : g[i] = "]"}
    IN  IF starts = {} THEN [ok |-> FALSE, user |-> <<>>]
        ELSE [ok |-> TRUE,
              user |-> IF close = {} THEN g ELSE SubSeq(g, 1, SetMin(close) - 1)]

EffectiveUserEvaluate(params) ==
    LET lines == DictGet(prepared_dockerfile, D_USER)
        user_lines == IF lines = <<>> THEN <<D_USER \o <<" ","r","o","o","t">>>>
                      ELSE lines
        match == SanitizeUser(Strip(user_lines[Len(user_lines)]))
        user == match.user
        f1 == IF params.ALLOWED # <<>> /\ ~InList(user, params.ALLOWED)
              THEN Fire(<<>>, "user not on the allowed list", user) ELSE <<>>
        f2 == IF params.DENIED # <<>> /\ InList(user, params.DENIED)
              THEN Fire(f1, "user on the denied list", user) ELSE f1
    IN  IF ~HasPrepared THEN Returned(<<>>)
        ELSE IF ~match.ok THEN Returned(<<>>)
        ELSE Returned(f2)

(***************************************************************************)
(* DirectiveCheckTrigger                                                   *)
(***************************************************************************)
\* DirectiveCheckTrigger.ops[condition](x, y); CHECK_VALUE is a pattern without
\* metacharacters, so that re.match(y, x) is x.startswith(y)
Ops(condition, x, y) ==
    CASE condition = "=" -> x = y
      [] condition = "!=" -> x # y
      [] condition = "exists" -> TRUE
      [] condition = "not_exists" -> FALSE
      [] condition = "like" -> StartsWith(x, y)
      [] condition = "not_like" -> ~StartsWith(x, y)

\* the findings of "for l in lines" for one directive
RECURSIVE DirectiveLines(_, _, _, _, _)
DirectiveLines(findings, directive, lines, condition, check_value) ==
    IF lines = <<>> THEN findings
    ELSE LET l == Strip(From(Head(lines), Len(directive)))
         IN  DirectiveLines(
                 IF Ops(condition, l, check_value)
                 THEN Fire(findings, "directive check matched", <<directive, l>>)
                 ELSE findings,
                 directive, Tail(lines), condition, check_value)

\* the findings of "for directive, lines in filter(...)", the entries taken in
\* the order ks
RECURSIVE DirectiveItems(_, _, _, _)
DirectiveItems(findings, ks, condition, check_value) ==
    IF ks = <<>> THEN findings
    ELSE DirectiveItems(
             DirectiveLines(findings, Head(ks), prepared_dockerfile[Head(ks)],
                            condition, check_value),
             Tail(ks), condition, check_value)

\* the findings of "for match in directives.difference(...)", in the order ms
RECURSIVE DirectiveMissing(_, _)
DirectiveMissing(findings, ms) ==
    IF ms = <<>> THEN findings
    ELSE DirectiveMissing(Fire(findings, "directive not found", Head(ms)), Tail(ms))

\* the set of requested directives, upper-cased
RequestedDirectives(params) ==
    {Upper(params.DIRECTIVES[i]) : i \in 1..Len(params.DIRECTIVES)}

\* the requested directives without those that are keys of the dictionary
\* (upper-cased once more)
MissingDirectives(params) ==
    RequestedDirectives(params) \
        (RequestedDirectives(params) \cap
            {Upper(k) : k \in DOMAIN prepared_dockerfile})

\* ks and ms: the orders in which the dictionary and the set are iterated
DirectiveCheckEvaluate(params, ks, ms) ==
    LET perLine == DirectiveItems(<<>>, ks, params.CHECK, params.CHECK_VALUE)
    IN  IF ~HasPrepared THEN Returned(<<>>)
        ELSE IF params.CHECK = "" \/ RequestedDirectives(params) = {}
        THEN Returned(<<>>)
        ELSE IF params.CHECK = "not_exists"
        THEN Returned(DirectiveMissing(perLine, ms))
        ELSE Returned(perLine)


(***************************************************************************)
(* ExposeTrigger                                                           *)
(***************************************************************************)
TCP == <<"/","t","c","p">>
UDP == <<"/","u","d","p">>
P_ALL == <<"A","L","L">>
P_NONE == <<"N","O","N","E">>

\* the denied loop with three independent tests in place of if / elif / elif
RECURSIVE ExposeDenied_PerForm(_, _, _)
ExposeDenied_PerForm(findings, denied_ports, iexpose) ==
    IF denied_ports = <<>> THEN findings
    ELSE LET p == Head(denied_ports)
             f1 == IF InList(p, iexpose)
                   THEN Fire(findings, "port in DENIEDPORTS", p) ELSE findings
             f2 == IF InList(p \o TCP, iexpose)
                   THEN Fire(f1, "port in DENIEDPORTS", p \o TCP) ELSE f1
             f3 == IF InList(p \o UDP, iexpose)
                   THEN Fire(f2, "port in DENIEDPORTS", p \o UDP) ELSE f2
         IN  ExposeDenied_PerForm(f3, Tail(denied_ports), iexpose)

\* "for p in denied_ports": at most one finding for each p, for the first of
\* p, p/tcp and p/udp that is among the tokens
RECURSIVE ExposeDenied(_, _, _)
ExposeDenied(findings, denied_ports, iexpose) ==
    IF denied_ports = <<>> THEN findings
    ELSE LET p == Head(denied_ports)
             f == IF InList(p, iexpose)
                  THEN Fire(findings, "port in DENIEDPORTS", p)
                  ELSE IF InList(p \o TCP, iexpose)
                  THEN Fire(findings, "port in DENIEDPORTS", p \o TCP)
                  ELSE IF InList(p \o UDP, iexpose)
                  THEN Fire(findings, "port in DENIEDPORTS", p \o UDP)
                  ELSE findings
         IN  ExposeDenied(f, Tail(denied_ports), iexpose)

\* the removal without the loop: one pass of the three removals
RemoveAllowed_Once(iexpose, p) ==
    ListRemove(ListRemove(ListRemove(iexpose, p).list, p \o TCP).list, p \o UDP).list

\* "while not done" for one allowed port: each pass tries to remove one p, one
\* p/tcp and one p/udp, and only the last try sets done
RECURSIVE RemoveAllowed(_, _)
RemoveAllowed(iexpose, p) ==
    LET r1 == ListRemove(iexpose, p)
        r2 == ListRemove(r1.list, p \o TCP)
        r3 == ListRemove(r2.list, p \o UDP)
    IN  IF r3.ok THEN RemoveAllowed(r3.list, p) ELSE r3.list

\* "for p in allowed_ports": the token list that is left
RECURSIVE ExposeAllowed(_, _)
ExposeAllowed(iexpose, allowed_ports) ==
    IF allowed_ports = <<>> THEN iexpose
    ELSE ExposeAllowed(RemoveAllowed(iexpose, Head(allowed_ports)),
                       Tail(allowed_ports))

\* "for ip in iexpose": one finding for each token that is left
RECURSIVE ExposeNotAllowed(_, _)
ExposeNotAllowed(findings, iexpose) ==
    IF iexpose = <<>> THEN findings
    ELSE ExposeNotAllowed(Fire(findings, "port not in ALLOWEDPORTS", Head(iexpose)),
                          Tail(iexpose))

\* the body of the loop with the denied check skipped when ALLOWEDPORTS has NONE
ExposeLine_NoneOnly(findings, line, allowed_ports, denied_ports) ==
    LET m == MatchKeyword(Strip(line), D_EXPOSE)
        iexpose == SplitWs(m.str)
        f1 == IF denied_ports = <<>> THEN findings
              ELSE IF InList(P_ALL, denied_ports) /\ Len(iexpose) > 0
              THEN Fire(findings, "DENIEDPORTS=ALL", iexpose)
              ELSE ExposeDenied(findings, denied_ports, iexpose)
        f2 == IF allowed_ports = <<>> THEN f1
              ELSE IF InList(P_NONE, allowed_ports) /\ Len(iexpose) > 0
              THEN Fire(findings, "ALLOWEDPORTS=NONE", iexpose)
              ELSE ExposeNotAllowed(f1, ExposeAllowed(iexpose, allowed_ports))
    IN  IF m.ok /\ m.str # <<>> THEN f2 ELSE findings

\* the body of "for line in expose_lines" for one line
ExposeLine(findings, line, allowed_ports, denied_ports) ==
    LET m == MatchKeyword(Strip(line), D_EXPOSE)
        iexpose == SplitWs(m.str)
        f1 == IF denied_ports = <<>> THEN findings
              ELSE IF InList(P_ALL, denied_ports) /\ Len(iexpose) > 0
              THEN Fire(findings, "DENIEDPORTS=ALL", iexpose)
              ELSE ExposeDenied(findings, denied_ports, iexpose)
        f2 == IF allowed_ports = <<>> THEN f1
              ELSE IF InList(P_NONE, allowed_ports) /\ Len(iexpose) > 0
              THEN Fire(f1, "ALLOWEDPORTS=NONE", iexpose)
              ELSE ExposeNotAllowed(f1, ExposeAllowed(iexpose, allowed_ports))
    IN  IF m.ok /\ m.str # <<>> THEN f2 ELSE findings

RECURSIVE ExposeLines(_, _, _, _)
ExposeLines(findings, lines, allowed_ports, denied_ports) ==
    IF lines = <<>> THEN findings
    ELSE ExposeLines(ExposeLine(findings, Head(lines), allowed_ports, denied_ports),
                     Tail(lines), allowed_ports, denied_ports)

ExposeEvaluate(params) ==
    IF ~HasPrepared THEN Returned(<<>>)
    ELSE Returned(ExposeLines(<<>>, DictGet(prepared_dockerfile, D_EXPOSE),
                              params.ALLOWEDPORTS, params.DENIEDPORTS))

(***************************************************************************)
(* NoFromTrigger, FromScratch, NoTag                                       *)
(***************************************************************************)
NoFromEvaluate ==
    IF ~HasPrepared THEN Returned(<<>>)
    ELSE IF DictGet(prepared_dockerfile, D_FROM) = <<>>
    THEN Returned(Fire(<<>>, "no FROM directive", <<>>))
    ELSE Returned(<<>>)

SCRATCH == <<"s","c","r","a","t","c","h">>

\* "for line in from_lines": fromstr stays None when the pattern does not match,
\* and None.lower() raises AttributeError
RECURSIVE FromScratchLines(_, _)
FromScratchLines(findings, lines) ==
    IF lines = <<>> THEN Returned(findings)
    ELSE LET m == MatchKeyword(Head(lines), D_FROM)
         IN  IF ~m.ok THEN Raised(findings)
             ELSE FromScratchLines(
                      IF m.str = Upper(SCRATCH) \/ Lower(m.str) = SCRATCH
                      THEN Fire(findings, "FROM container is scratch", m.str)
                      ELSE findings,
                      Tail(lines))

FromScratchEvaluate ==
    IF ~HasPrepared THEN Returned(<<>>)
    ELSE FromScratchLines(<<>>, DictGet(prepared_dockerfile, D_FROM))

LATEST == <<"l","a","t","e","s","t">>

\* re.match("(\S+):(\S+)", fromstr): whether it matches, and group(2); the
\* first group runs to the last colon of the first token that has a character
\* on both sides
MatchTag(fromstr) ==
    LET ws == {i \in 1..Len(fromstr) : IsSpace(fromstr[i])}
        tok == IF ws = {} THEN fromstr ELSE SubSeq(fromstr, 1, SetMin(ws) - 1)
        colons == {i \in 2..(Len(tok) - 1) : tok[i] = ":"}
    IN  IF colons = {} THEN [ok |-> FALSE, tag |-> <<>>]
        ELSE [ok |-> TRUE, tag |-> From(tok, SetMax(colons))]

RECURSIVE NoTagLines(_, _)
NoTagLines(findings, lines) ==
    IF lines = <<>> THEN findings
    ELSE LET m == MatchKeyword(Head(lines), D_FROM)
             t == MatchTag(m.str)
         IN  NoTagLines(
                 IF m.ok /\ m.str # <<>> /\ (t.ok => t.tag = LATEST)
                 THEN Fire(findings, "no non-latest container tag", m.str)
                 ELSE findings,
                 Tail(lines))

NoTagEvaluate ==
    IF ~HasPrepared THEN Returned(<<>>)
    ELSE Returned(NoTagLines(<<>>, DictGet(prepared_dockerfile, D_FROM)))

(***************************************************************************)
(* Sudo, VolumePresent, NoHealthCheck, NoDockerfile                        *)
(***************************************************************************)
SUDO == <<"s","u","d","o">>

\* re.match(".*sudo.*", line)
HasSudo(line) ==
    \E i \in 1..Len(line) : i + 3 <= Len(line) /\ SubSeq(line, i, i + 3) = SUDO

RECURSIVE SudoLines(_, _)
SudoLines(findings, lines) ==
    IF lines = <<>> THEN findings
    ELSE SudoLines(IF HasSudo(Strip(Head(lines)))
                   THEN Fire(findings, "sudo command", Strip(Head(lines)))
                   ELSE findings,
                   Tail(lines))

SudoEvaluate ==
    IF ~HasPrepared THEN Returned(<<>>)
    ELSE Returned(SudoLines(<<>>, dockerfile_contents))

RECURSIVE VolumeLines(_, _)
VolumeLines(findings, lines) ==
    IF lines = <<>> THEN findings
    ELSE VolumeLines(Fire(findings, "VOLUME line", Head(lines)), Tail(lines))

VolumePresentEvaluate ==
    IF ~HasPrepared THEN Returned(<<>>)
    ELSE Returned(VolumeLines(<<>>, DictGet(prepared_dockerfile, D_VOLUME)))

NoHealthCheckEvaluate ==
    IF ~HasPrepared THEN Returned(<<>>)
    ELSE IF DictGet(prepared_dockerfile, D_HEALTHCHECK) = <<>>
    THEN Returned(Fire(<<>>, "no HEALTHCHECK instructions", <<>>))
    ELSE Returned(<<>>)

NoDockerfileEvaluate ==
    IF dockerfile_mode # "Actual"
    THEN Returned(Fire(<<>>, "not analyzed with an actual Dockerfile", <<>>))
    ELSE Returned(<<>>)


(***************************************************************************)
(* The inputs: Dockerfile lines, texts of at most MaxLines lines drawn     *)
(* from one group of lines, and trigger parameters.                        *)
(***************************************************************************)
\* ' RUN apt-get \ ' (a continuation line with surrounding blanks)
L_RunCont == <<" ","R","U","N"," ","a","p","t","-","g","e","t"," ","\\"," ">>
\* 'update'
L_Update == <<"u","p","d","a","t","e">>
\* '# c'
L_Comment == <<"#"," ","c">>
\* ' '
L_Blank == <<" ">>
\* 'run  b'
L_RunLower == <<"r","u","n"," "," ","b">>
\* 'RUN<tab>b'
L_RunTab == <<"R","U","N","\t","b">>
\* 'VOLUME /v'
L_Volume == <<"V","O","L","U","M","E"," ","/","v">>
\* 'CMD\'
L_CmdCont == <<"C","M","D","\\">>
\* 'USER bob'
L_UserBob == <<"U","S","E","R"," ","b","o","b">>
\* 'user amy'
L_UserLower == <<"u","s","e","r"," ","a","m","y">>
\* 'USER [amy]'
L_UserBracket == <<"U","S","E","R"," ","[","a","m","y","]">>
\* 'RUN a'
L_RunA == <<"R","U","N"," ","a">>
\* 'EXPOSE 22 80/tcp 9000'
L_Expose3 == <<"E","X","P","O","S","E"," ","2","2"," ","8","0","/","t","c","p"," ","9","0","0","0">>
\* 'EXPOSE 22 22/tcp 22/udp'
L_ExposeForms == <<"E","X","P","O","S","E"," ","2","2"," ","2","2","/","t","c","p"," ","2","2","/","u","d","p">>
\* 'EXPOSE 80 80'
L_ExposeDup == <<"E","X","P","O","S","E"," ","8","0"," ","8","0">>
\* 'expose 80/udp 80/udp 80 80'
L_ExposeUdpDup == <<"e","x","p","o","s","e"," ","8","0","/","u","d","p"," ","8","0","/","u","d","p"," ","8","0"," ","8","0">>
\* 'Expose 22'
L_ExposeMixed == <<"E","x","p","o","s","e"," ","2","2">>
\* 'FROM scratch'
L_FromScratch == <<"F","R","O","M"," ","s","c","r","a","t","c","h">>
\* 'from SCRATCH'
L_FromUpper == <<"f","r","o","m"," ","S","C","R","A","T","C","H">>
\* 'From scratch'
L_FromMixed == <<"F","r","o","m"," ","s","c","r","a","t","c","h">>
\* 'FROM a:latest'
L_FromLatest == <<"F","R","O","M"," ","a",":","l","a","t","e","s","t">>
\* 'RUN sudo b'
L_RunSudo == <<"R","U","N"," ","s","u","d","o"," ","b">>
\* 'volume /w'
L_VolumeLower == <<"v","o","l","u","m","e"," ","/","w">>
\* 'HEALTHCHECK x'
L_Health == <<"H","E","A","L","T","H","C","H","E","C","K"," ","x">>

FoldingLines == {L_RunCont, L_Update, L_Comment, L_Blank, L_RunLower, L_RunTab,
                 L_CmdCont}
UserLines == {L_UserBob, L_UserLower, L_UserBracket, L_RunA}
ExposeLines_ == {L_Expose3, L_ExposeForms, L_ExposeDup, L_ExposeUdpDup, L_ExposeMixed}
FromLines == {L_FromScratch, L_FromUpper, L_FromMixed, L_FromLatest, L_RunSudo}
DirectiveLines_ == {L_Volume, L_VolumeLower, L_Health, L_RunA}

\* the texts of at most MaxLines lines, each line from the group G
Texts(G) == UNION {[1..n -> G] : n \in 0..MaxLines}

Contents == Texts(FoldingLines) \cup Texts(UserLines) \cup Texts(ExposeLines_)
              \cup Texts(FromLines) \cup Texts(DirectiveLines_)

Modes == {"Actual", "Guessed", "Unknown"}

U_bob == <<"b","o","b">>
U_amy == <<"a","m","y">>
U_root == <<"r","o","o","t">>
P_22 == <<"2","2">>
P_80 == <<"8","0">>
P_9000 == <<"9","0","0","0">>
V_v == <<"/","v">>
V_slash == <<"/">>
D_volume_lower == <<"v","o","l","u","m","e">>

AllowedUsers == {<<>>, <<U_bob>>, <<U_root, U_amy>>}
DeniedUsers == {<<>>, <<U_root>>, <<U_bob>>}
AllowedPorts == {<<>>, <<P_80, P_9000>>, <<P_NONE>>}
DeniedPorts == {<<>>, <<P_22>>, <<P_ALL>>, <<P_80, P_22>>}
DirectiveLists == {<<>>, <<D_VOLUME>>, <<D_volume_lower, D_RUN>>}
\* CHECK with its CHECK_VALUE (none for exists and not_exists)
Checks == {<<"=", V_v>>, <<"exists", <<>>>>, <<"not_exists", <<>>>>,
           <<"not_like", V_slash>>}

(***************************************************************************)
(* The state machine: prepare_context, then the evaluate of one trigger    *)
(* (each trigger has its own list of findings and reads only the image and *)
(* the context, so one evaluation stands for its place in the gate's run). *)
(***************************************************************************)
Init ==
    /\ dockerfile_mode \in Modes
    /\ dockerfile_contents \in Contents
    /\ pc = "start"
    /\ prepared_set = FALSE
    /\ prepared_dockerfile = EmptyDict
    /\ linebuf = <<>>
    /\ lineno = 0
    /\ trigger = ""
    /\ eval_params = NoParams
    /\ fired = <<>>

\* evaluate() of the trigger called name, run on the prepared context
Evaluate(name, params, result) ==
    /\ pc = "prepared"
    /\ trigger' = name
    /\ eval_params' = params
    /\ fired' = result.fired
    /\ pc' = IF result.raised THEN "raised" ELSE "evaluated"
    /\ UNCHANGED <<image_vars, context_vars>>

DirectiveCheckTrigger ==
    \E ds \in DirectiveLists, c \in Checks :
        LET params == [NoParams EXCEPT !.DIRECTIVES = ds, !.CHECK = c[1],
                                       !.CHECK_VALUE = c[2]]
        IN  \E ks \in Orders(DOMAIN prepared_dockerfile \cap RequestedDirectives(params)),
               ms \in Orders(MissingDirectives(params)) :
                Evaluate("DIRECTIVECHECK", params, DirectiveCheckEvaluate(params, ks, ms))

EffectiveUserTrigger ==
    \E a \in AllowedUsers, d \in DeniedUsers :
        LET params == [NoParams EXCEPT !.ALLOWED = a, !.DENIED = d]
        IN  Evaluate("EFFECTIVEUSER", params, EffectiveUserEvaluate(params))

ExposeTrigger ==
    \E a \in AllowedPorts, d \in DeniedPorts :
        LET params == [NoParams EXCEPT !.ALLOWEDPORTS = a, !.DENIEDPORTS = d]
        IN  Evaluate("EXPOSE", params, ExposeEvaluate(params))

NoFromTrigger == Evaluate("NOFROM", NoParams, NoFromEvaluate)
FromScratch == Evaluate("FROMSCRATCH", NoParams, FromScratchEvaluate)
NoTag == Evaluate("NOTAG", NoParams, NoTagEvaluate)
Sudo == Evaluate("SUDO", NoParams, SudoEvaluate)
VolumePresent == Evaluate("VOLUMEPRESENT", NoParams, VolumePresentEvaluate)
NoHealthCheck == Evaluate("NOHEALTHCHECK", NoParams, NoHealthCheckEvaluate)
NoDockerfile == Evaluate("NODOCKERFILE", NoParams, NoDockerfileEvaluate)

Next ==
    \/ PrepareBegin
    \/ PrepareLine
    \/ PrepareReturn
    \/ DirectiveCheckTrigger
    \/ EffectiveUserTrigger
    \/ ExposeTrigger
    \/ NoFromTrigger
    \/ FromScratch
    \/ NoTag
    \/ Sudo
    \/ VolumePresent
    \/ NoHealthCheck
    \/ NoDockerfile

Spec == Init /\ [][Next]_vars


(***************************************************************************)
(* Vocabulary of the properties.                                           *)
(***************************************************************************)
\* the evaluate of the trigger called name has returned
Evaluated(name) == pc = "evaluated" /\ trigger = name

\* prepare_context has ended, by a return or by an exception, and no trigger
\* has run yet
PrepareEnded == trigger = "" /\ pc \in {"prepared", "raised"}

\* number of findings of one kind
CountKind(kind) == Cardinality({i \in 1..Len(fired) : fired[i][1] = kind})

\* number of findings of one kind that cite arg
CountCited(kind, arg) ==
    Cardinality({i \in 1..Len(fired) : fired[i][1] = kind /\ fired[i][2] = arg})

\* the trimmed lines of the text that are neither blank nor comments
InstructionLines ==
    SelectSeq([i \in 1..Len(dockerfile_contents) |-> Strip(dockerfile_contents[i])],
              IsInstruction)

\* the instruction lines that do not end with the continuation marker: each
\* closes the logical line that starts after the previous such line
Closers == {c \in 1..Len(InstructionLines) : ~EndsWithBackslash(InstructionLines[c])}

GroupStart(c) ==
    LET prev == {d \in Closers : d < c}
    IN  IF prev = {} THEN 1 ELSE SetMax(prev) + 1

\* the instruction lines i..c with the markers of all but line c removed, joined
RECURSIVE Folded(_, _)
Folded(i, c) ==
    IF i = c THEN InstructionLines[c]
    ELSE DropBackslash(InstructionLines[i]) \o Folded(i + 1, c)

LogicalLine(c) == Folded(GroupStart(c), c)

\* the logical lines of the text, in file order
AllLogicalLines ==
    [n \in 1..Cardinality(Closers) |->
        LogicalLine(CHOOSE c \in Closers : Cardinality({d \in Closers : d <= c}) = n)]

\* the upper-cased first token of a logical line, split at the first whitespace run
KeyOf(x) == Upper(SplitWs(x)[1])

\* number of entries of the prepared mapping equal to x
OutputCount(x) ==
    Cardinality(UNION {{<<k, i>> : i \in {j \in 1..Len(prepared_dockerfile[k]) :
                                              prepared_dockerfile[k][j] = x}} :
                       k \in DOMAIN prepared_dockerfile})

\* the logical lines stored under EXPOSE whose keyword is written EXPOSE or
\* expose, as positions of that list, and the port tokens of each
ExposeEntries == DictGet(prepared_dockerfile, D_EXPOSE)
ExposeWritten ==
    {li \in 1..Len(ExposeEntries) :
        SplitWs(ExposeEntries[li])[1] \in {D_EXPOSE, Lower(D_EXPOSE)}}
PortTokens(li) == Tail(SplitWs(ExposeEntries[li]))

\* the three forms of a port
Forms(p) == <<p, p \o TCP, p \o UDP>>

\* the token at position i is the Occ-th occurrence of its value
Occ(tokens, i) == Cardinality({j \in 1..i : tokens[j] = tokens[i]})

\* the pairs <<line, position>> of the token positions Left(li) of the EXPOSE lines
LeftPairs(Left(_)) == UNION {{<<li, i>> : i \in Left(li)} : li \in ExposeWritten}
CountOf(tokens, t) == Cardinality({j \in 1..Len(tokens) : tokens[j] = t})

(***************************************************************************)
(* C1                                                                      *)
(***************************************************************************)
NoInstructionLine == InstructionLines = <<>>

C2_FoldedRunIsOneLogicalLine ==
    (dockerfile_mode = "Actual" /\ PrepareEnded) =>
        \A c \in Closers :
            GroupStart(c) < c =>
                OutputCount(LogicalLine(c)) =
                    Cardinality({d \in Closers : LogicalLine(d) = LogicalLine(c)})

\* C3: for an Actual manifest, every buffered logical line, whatever its
\* whitespace, is appended to the list keyed by its upper-cased first token and
\* prepare goes on: it ends normally, and each list holds its lines in file order.
C3_EveryLogicalLineIsFiled ==
    (dockerfile_mode = "Actual" /\ PrepareEnded) =>
        /\ pc = "prepared"
        /\ DOMAIN prepared_dockerfile =
               {KeyOf(AllLogicalLines[n]) : n \in 1..Len(AllLogicalLines)}
        /\ \A k \in DOMAIN prepared_dockerfile :
               prepared_dockerfile[k] =
                   SelectSeq(AllLogicalLines, LAMBDA x : KeyOf(x) = k)

\* C10: for an Actual manifest, when prepare has consumed the last line and
\* returns, the buffer is empty and every instruction line is part of a logical
\* line of the output.
C10_NoTextLost ==
    (dockerfile_mode = "Actual" /\ trigger = "" /\ pc = "prepared") =>
        /\ linebuf = <<>>
        /\ \A i \in 1..Len(InstructionLines) :
               \E c \in Closers :
                   /\ GroupStart(c) <= i /\ i <= c
                   /\ OutputCount(LogicalLine(c)) >= 1

(***************************************************************************)
(* C4, C5, C9                                                              *)
(***************************************************************************)
\* C4: DirectiveCheck with CHECK=not_exists on an Actual manifest emits exactly
\* one finding for each requested directive that has no logical line, and no
\* other finding.
C4_NotExistsFiresPerMissingDirective ==
    (/\ Evaluated("DIRECTIVECHECK")
     /\ dockerfile_mode = "Actual"
     /\ eval_params.CHECK = "not_exists"
     /\ eval_params.DIRECTIVES # <<>>) =>
        LET missing == {r \in RequestedDirectives(eval_params) :
                           DictGet(prepared_dockerfile, r) = <<>>}
        IN  /\ Len(fired) = Cardinality(missing)
            /\ \A m \in missing : CountCited("directive not found", m) = 1

\* the user named on a USER line: its second token, without the brackets
NamedUser(line) ==
    LET t == SplitWs(line)[2]
    IN  IF Len(t) >= 2 /\ t[1] = "[" /\ t[Len(t)] = "]"
        THEN SubSeq(t, 2, Len(t) - 1) ELSE t

\* the user of the last USER line, root without a USER line
EffectiveUser ==
    LET lines == DictGet(prepared_dockerfile, D_USER)
    IN  IF lines = <<>> THEN U_root ELSE NamedUser(lines[Len(lines)])

\* C5: on an Actual manifest EffectiveUser emits one finding when ALLOWED is
\* non-empty and the effective user is not in it, and one when DENIED is
\* non-empty and the effective user is in it.
C5_EffectiveUserFindings ==
    (Evaluated("EFFECTIVEUSER") /\ dockerfile_mode = "Actual") =>
        /\ CountKind("user not on the allowed list") =
               IF eval_params.ALLOWED # <<>> /\ ~InList(EffectiveUser, eval_params.ALLOWED)
               THEN 1 ELSE 0
        /\ CountKind("user on the denied list") =
               IF eval_params.DENIED # <<>> /\ InList(EffectiveUser, eval_params.DENIED)
               THEN 1 ELSE 0
        /\ Len(fired) = CountKind("user not on the allowed list")
                          + CountKind("user on the denied list")

\* C9: FromScratch completes normally for every line stored under FROM and
\* emits one finding for each whose argument equals scratch ignoring case.
C9_FromScratchCompletes ==
    (trigger = "FROMSCRATCH" /\ pc \in {"evaluated", "raised"}) =>
        LET lines == DictGet(prepared_dockerfile, D_FROM)
            scratch == {i \in 1..Len(lines) :
                           Lower(Strip(From(lines[i], Len(D_FROM)))) = SCRATCH}
        IN  /\ pc = "evaluated"
            /\ Len(fired) = Cardinality(scratch)


(***************************************************************************)
(* C6, C7, C8: ExposeTrigger                                               *)
(***************************************************************************)
Denied == eval_params.DENIEDPORTS
Allowed == eval_params.ALLOWEDPORTS

\* the denied ports, as positions of DENIEDPORTS, that have a form among the
\* tokens of line li
DeniedOnLine(li) ==
    {pi \in 1..Len(Denied) :
        \E f \in 1..3 : InList(Forms(Denied[pi])[f], PortTokens(li))}

\* the first of p, p/tcp, p/udp that is among the tokens
FirstForm(p, tokens) ==
    Forms(p)[SetMin({f \in 1..3 : InList(Forms(p)[f], tokens)})]

\* C6 as stated: with DENIEDPORTS non-empty and without ALL, each EXPOSE line
\* yields one finding for each of the forms p, p/tcp, p/udp of each denied port
\* p that is among its tokens; with ALL, exactly one finding for each line.
C6_DeniedFiresPerForm ==
    (Evaluated("EXPOSE") /\ Denied # <<>>) =>
        IF InList(P_ALL, Denied)
        THEN CountKind("DENIEDPORTS=ALL") = Cardinality(ExposeWritten)
        ELSE CountKind("port in DENIEDPORTS") =
                 Cardinality({<<li, pi, f>> \in
                                  ExposeWritten \X (1..Len(Denied)) \X (1..3) :
                                  InList(Forms(Denied[pi])[f], PortTokens(li))})

\* C6 amended: with DENIEDPORTS non-empty and without ALL, each EXPOSE line
\* (keyword written EXPOSE or expose) yields, for each denied port p that has a
\* form among its tokens, exactly one finding, which cites the first of p,
\* p/tcp, p/udp that is present: at most one finding per denied port per line.
\* With ALL in DENIEDPORTS the denied check yields exactly one finding for each
\* such line and none that cites a single port.
C6_DeniedFiresOncePerPort ==
    (Evaluated("EXPOSE") /\ Denied # <<>>) =>
        IF InList(P_ALL, Denied)
        THEN /\ CountKind("DENIEDPORTS=ALL") = Cardinality(ExposeWritten)
             /\ CountKind("port in DENIEDPORTS") = 0
        ELSE /\ CountKind("DENIEDPORTS=ALL") = 0
             /\ CountKind("port in DENIEDPORTS") =
                    Cardinality({<<li, pi>> \in ExposeWritten \X (1..Len(Denied)) :
                                     pi \in DeniedOnLine(li)})
             /\ \A i \in 1..Len(fired) :
                    fired[i][1] = "port in DENIEDPORTS" =>
                        \E li \in ExposeWritten : \E pi \in DeniedOnLine(li) :
                            fired[i][2] = FirstForm(Denied[pi], PortTokens(li))

\* a line exposing the three forms of a denied port was evaluated without ALL
\* and gave a single denied finding
C6_Witness ==
    /\ Evaluated("EXPOSE")
    /\ Denied # <<>> /\ ~InList(P_ALL, Denied)
    /\ \E li \in ExposeWritten : \E pi \in 1..Len(Denied) :
           \A f \in 1..3 : InList(Forms(Denied[pi])[f], PortTokens(li))
    /\ CountKind("port in DENIEDPORTS") = 1

\* the allowed port, if any, that the token t is a form of
IsFormOfAllowed(t) ==
    \E pi \in 1..Len(Allowed) : \E f \in 1..3 : Forms(Allowed[pi])[f] = t

\* the positions of the tokens of line li that are left when each form of each
\* allowed port is removed once
LeftAfterOneRemoval(li) ==
    {i \in 1..Len(PortTokens(li)) :
        ~IsFormOfAllowed(PortTokens(li)[i]) \/ Occ(PortTokens(li), i) > 1}

\* the positions that are left when, for each allowed port p, the pass of three
\* removals is repeated for as long as a p/udp was removed: with u tokens p/udp
\* and n occurrences of p in ALLOWEDPORTS, every p/udp goes, and the first u + n
\* occurrences of p and of p/tcp
LeftAfterPasses(li) ==
    {i \in 1..Len(PortTokens(li)) :
        LET t == PortTokens(li)[i]
        IN  \A pi \in 1..Len(Allowed) :
                LET p == Allowed[pi]
                    n == CountOf(Allowed, p)
                    u == CountOf(PortTokens(li), p \o UDP)
                IN  /\ t # p \o UDP
                    /\ t \in {p, p \o TCP} => Occ(PortTokens(li), i) > u + n}

AllowedChecked == Allowed # <<>> /\ ~InList(P_NONE, Allowed)

SingleExposeLine ==
    /\ Len(ExposeEntries) = 1
    /\ ExposeWritten = {1}
    /\ Len(PortTokens(1)) >= 1

\* C8 as stated: with NONE in ALLOWEDPORTS and a single EXPOSE line that has a
\* port token, the trigger fires exactly once, whatever DENIEDPORTS is.
C8_NoneFiresExactlyOnce ==
    (Evaluated("EXPOSE") /\ InList(P_NONE, Allowed) /\ SingleExposeLine) =>
        Len(fired) = 1

\* C8 amended: with NONE in ALLOWEDPORTS and a single EXPOSE line (keyword
\* written EXPOSE or expose) that has a port token, the allowed check fires
\* exactly once, whatever DENIEDPORTS is, and the denied check fires besides:
\* the trigger yields one finding when DENIEDPORTS is absent or names no exposed
\* port, two when DENIEDPORTS has ALL, and otherwise one more for each denied
\* port that is exposed.
C8_NoneFiresOnceBesidesDenied ==
    (Evaluated("EXPOSE") /\ InList(P_NONE, Allowed) /\ SingleExposeLine) =>
        /\ CountKind("ALLOWEDPORTS=NONE") = 1
        /\ CountKind("port not in ALLOWEDPORTS") = 0
        /\ Len(fired) = 1 + (IF Denied = <<>> THEN 0
                             ELSE IF InList(P_ALL, Denied) THEN 1
                             ELSE Cardinality(DeniedOnLine(1)))

\* a single EXPOSE line was evaluated with ALLOWEDPORTS=NONE and DENIEDPORTS=ALL
\* and gave two findings
C8_Witness ==
    /\ Evaluated("EXPOSE")
    /\ InList(P_NONE, Allowed) /\ InList(P_ALL, Denied)
    /\ SingleExposeLine
    /\ Len(fired) = 2

=============================================================================
